---- MODULE Spec2Model ----
(***************************************************************************)
(* A model of district_api (a Python 2 client of the NY Times Districts    *)
(* API): the District entity and its ordering, the request builder, the    *)
(* status and body validators, the two decoders and the two public calls   *)
(* get_all_districts() and get_districts(point).                           *)
(*                                                                         *)
(* Python values are tagged records.  Strings are sequences of character   *)
(* codes, so that int(), float() and the lexicographic order of strings    *)
(* are computed and not assumed.                                           *)
(***************************************************************************)
EXTENDS Integers, Sequences, FiniteSets, TLC

VARIABLES pc, op, arg, lat_lng, query_vars, response, data, outcome, requests, stages

vars == <<pc, op, arg, lat_lng, query_vars, response, data, outcome, requests, stages>>

(***************************************************************************)
(* Bounds of the model.                                                    *)
(***************************************************************************)
\* longest district label compared by the ordering specification
MaxLabelLen == 2
\* longest results sequence handed directly to a decoder
MaxRows == 3
\* longest results sequence in a response body of the call pipeline
MaxBodyRows == 2
\* longest point handed to get_districts
MaxPointLen == 3

(***************************************************************************)
(* Python values.                                                          *)
(***************************************************************************)
NoValue == [t |-> "none"]
Null == [t |-> "null"]
Num(n) == [t |-> "num", n |-> n]
RECURSIVE Float(_, _)
\* a float, held exactly as the decimal m / 10^e with no trailing zero in
\* its fraction (Float(15, 1) is 1.5)
Float(m, e) ==
    IF e > 0 /\ m % 10 = 0 THEN Float(m \div 10, e - 1)
    ELSE [t |-> "float", m |-> m, e |-> e]
Str(s) == [t |-> "str", s |-> s]
List(xs) == [t |-> "list", xs |-> xs]
Tuple(xs) == [t |-> "tuple", xs |-> xs]
\* a dict: a function from its keys to its values
Dict(m) == [t |-> "dict", m |-> m]
EmptyDict == Dict([k \in {} |-> Null])

\* the outcome of a call: a value returned, or an exception raised
Return(x) == [t |-> "return", v |-> x]
Raise(kind, what) == [t |-> "raise", exc |-> kind, payload |-> what]

\* character codes: " " is 32, "+" 43, "-" 45, "." 46, "0".."9" 48..57
IsSpace(c) == c = 32
IsSign(c) == c \in {43, 45}
IsDigit(c) == c \in 48..57

\* Python truth value of a value (used by "if not status" and "if lat_lng")
Truthy(x) ==
    CASE x.t = "null" -> FALSE
      [] x.t = "none" -> FALSE
      [] x.t = "num" -> x.n # 0
      [] x.t = "float" -> x.m # 0
      [] x.t = "str" -> Len(x.s) > 0
      [] x.t = "list" -> Len(x.xs) > 0
      [] x.t = "tuple" -> Len(x.xs) > 0
      [] x.t = "dict" -> DOMAIN x.m # {}
      [] OTHER -> TRUE

RECURSIVE LStrip(_)
LStrip(s) == IF s # <<>> /\ IsSpace(Head(s)) THEN LStrip(Tail(s)) ELSE s

RECURSIVE RStrip(_)
RStrip(s) ==
    IF s # <<>> /\ IsSpace(s[Len(s)]) THEN RStrip(SubSeq(s, 1, Len(s) - 1)) ELSE s

Strip(s) == RStrip(LStrip(s))

RECURSIVE DigitsVal(_)
DigitsVal(s) ==
    IF s = <<>> THEN 0
    ELSE DigitsVal(SubSeq(s, 1, Len(s) - 1)) * 10 + (s[Len(s)] - 48)

AllDigits(s) == \A i \in 1..Len(s) : IsDigit(s[i])

\* int() of a string: surrounding blanks, an optional sign, then digits
IntOfString(s) ==
    LET t == Strip(s)
        signed == t # <<>> /\ IsSign(Head(t))
        body == IF signed THEN Tail(t) ELSE t
        sign == IF signed /\ Head(t) = 45 THEN -1 ELSE 1
    IN  IF body # <<>> /\ AllDigits(body)
        THEN Return(sign * DigitsVal(body))
        ELSE Raise("ValueError", Str(s))

\* int(x) of a string, an integer or None (a district label is never a float
\* in this model)
PyInt(x) ==
    CASE x.t = "str" -> IntOfString(x.s)
      [] x.t = "num" -> Return(x.n)
      [] OTHER -> Raise("TypeError", x)

\* the index of the first "." of s, or 0
FirstDot(s) ==
    IF \E i \in 1..Len(s) : s[i] = 46
    THEN CHOOSE i \in 1..Len(s) : s[i] = 46 /\ \A j \in 1..(i - 1) : s[j] # 46
    ELSE 0

\* float() of a string: surrounding blanks, an optional sign, then digits
\* with at most one "." among them (exponents, "inf" and "nan" are not
\* among the strings of the model)
FloatOfString(s) ==
    LET t == Strip(s)
        signed == t # <<>> /\ IsSign(Head(t))
        body == IF signed THEN Tail(t) ELSE t
        sign == IF signed /\ Head(t) = 45 THEN -1 ELSE 1
        dot == FirstDot(body)
        whole == IF dot = 0 THEN body ELSE SubSeq(body, 1, dot - 1)
        frac == IF dot = 0 THEN <<>> ELSE SubSeq(body, dot + 1, Len(body))
    IN  IF AllDigits(whole) /\ AllDigits(frac) /\ Len(whole) + Len(frac) > 0
        THEN Return(Float(sign * DigitsVal(whole \o frac), Len(frac)))
        ELSE Raise("ValueError", Str(s))

\* float(x)
PyFloat(x) ==
    CASE x.t = "float" -> Return(x)
      [] x.t = "num" -> Return(Float(x.n, 0))
      [] x.t = "str" -> FloatOfString(x.s)
      [] OTHER -> Raise("TypeError", x)

\* x[i] for an integer i (counted from 0): an element of a tuple or list, a
\* character of a string, IndexError past the end, TypeError for a value
\* that cannot be subscripted
Index(x, i) ==
    CASE x.t \in {"tuple", "list"} ->
           IF i < Len(x.xs) THEN Return(x.xs[i + 1]) ELSE Raise("IndexError", NoValue)
      [] x.t = "str" ->
           IF i < Len(x.s) THEN Return(Str(<<x.s[i + 1]>>))
           ELSE Raise("IndexError", NoValue)
      [] OTHER -> Raise("TypeError", x)

RECURSIVE LexLess(_, _)
\* s < t for two strings: by character code, a proper prefix first
LexLess(s, t) ==
    IF t = <<>> THEN FALSE
    ELSE IF s = <<>> THEN TRUE
    ELSE IF Head(s) # Head(t) THEN Head(s) < Head(t)
    ELSE LexLess(Tail(s), Tail(t))

\* rank of a type in Python 2's ordering of values of different types
TypeRank(x) ==
    CASE x.t = "null" -> 0
      [] x.t = "num" -> 1
      [] OTHER -> 2

\* a < b for two Python values (None, numbers, strings)
PyLess(a, b) ==
    IF a.t = "num" /\ b.t = "num" THEN a.n < b.n
    ELSE IF a.t = "str" /\ b.t = "str" THEN LexLess(a.s, b.s)
    ELSE TypeRank(a) < TypeRank(b)

(***************************************************************************)
(* The District entity and its ordering.                                   *)
(***************************************************************************)
District(d, l, k) == [t |-> "District", district |-> d, level |-> l, kml_url |-> k]

\* whether a value has a "district" attribute
HasDistrict(x) == x.t = "District"

\* the "except ValueError" branch of District.__lt__: both sides fall back to
\* the raw labels; reading other.district here is outside the try block
LtFallback(self, other) ==
    IF ~HasDistrict(other) THEN Raise("AttributeError", other)
    ELSE Return(PyLess(self.district, other.district))

\* __lt__ falling back to the raw label only on the side that does not
\* convert
LtKeepsConverted(self, other) ==
    LET a == PyInt(self.district)
        b == IF HasDistrict(other) THEN PyInt(other.district)
             ELSE Raise("TypeError", other)
        side(c, raw) == IF c.t = "return" THEN Num(c.v) ELSE raw
    IN  IF a.t = "raise" /\ a.exc # "ValueError" THEN a
        ELSE IF b.t = "raise" /\ b.exc # "ValueError" THEN b
        ELSE Return(PyLess(side(a, self.district), side(b, other.district)))

\* District.__lt__(self, other)
Lt(self, other) ==
    LET a == PyInt(self.district)
    IN  IF a.t = "raise"
        THEN IF a.exc = "ValueError" THEN LtFallback(self, other) ELSE a
        ELSE IF ~HasDistrict(other) THEN Raise("TypeError", other)
        ELSE LET b == PyInt(other.district)
             IN  IF b.t = "raise"
                 THEN IF b.exc = "ValueError" THEN LtFallback(self, other) ELSE b
                 ELSE Return(a.v < b.v)

(***************************************************************************)
(* sorted(v): CPython's list sort on a short list (fewer than 64 elements) *)
(* finds the run the list starts with, reverses it when it is descending   *)
(* and inserts the remaining elements by binary insertion.  A comparison   *)
(* that raises ends the sort with that exception.                          *)
(***************************************************************************)
RECURSIVE RunEnd(_, _, _)
\* the length of the run xs starts with; i is the next index to look at
RunEnd(xs, i, descending) ==
    IF i > Len(xs) THEN Return(Len(xs))
    ELSE LET c == Lt(xs[i], xs[i - 1])
         IN  IF c.t = "raise" THEN c
             ELSE IF c.v = descending THEN RunEnd(xs, i + 1, descending)
             ELSE Return(i - 1)

Reverse(xs) == [i \in 1..Len(xs) |-> xs[Len(xs) + 1 - i]]

RECURSIVE BinarySearch(_, _, _, _)
\* where pivot goes among the sorted xs[l..r-1]
BinarySearch(xs, pivot, l, r) ==
    IF l >= r THEN Return(l)
    ELSE LET p == l + ((r - l) \div 2)
             c == Lt(pivot, xs[p])
         IN  IF c.t = "raise" THEN c
             ELSE IF c.v THEN BinarySearch(xs, pivot, l, p)
             ELSE BinarySearch(xs, pivot, p + 1, r)

RECURSIVE BinarySort(_, _)
\* xs[1..start-1] is sorted; insert xs[start..] one by one
BinarySort(xs, start) ==
    IF start > Len(xs) THEN Return(xs)
    ELSE LET pos == BinarySearch(xs, xs[start], 1, start)
         IN  IF pos.t = "raise" THEN pos
             ELSE BinarySort(
                    SubSeq(xs, 1, pos.v - 1) \o <<xs[start]>>
                      \o SubSeq(xs, pos.v, start - 1)
                      \o SubSeq(xs, start + 1, Len(xs)),
                    start + 1)

Sorted(xs) ==
    IF Len(xs) < 2 THEN Return(xs)
    ELSE LET first == Lt(xs[2], xs[1])
         IN  IF first.t = "raise" THEN first
             ELSE LET run == RunEnd(xs, 3, first.v)
                  IN  IF run.t = "raise" THEN run
                      ELSE BinarySort(
                             IF first.v
                             THEN Reverse(SubSeq(xs, 1, run.v))
                                    \o SubSeq(xs, run.v + 1, Len(xs))
                             ELSE xs,
                             run.v + 1)

(***************************************************************************)
(* Python's subscription, iteration and hashing, as the decoders use them. *)
(***************************************************************************)
\* x[key] for a string key: a dict gives the value or KeyError, anything
\* else (list, string, number, None) gives TypeError
GetItem(x, key) ==
    IF x.t = "dict"
    THEN IF key \in DOMAIN x.m THEN Return(x.m[key]) ELSE Raise("KeyError", NoValue)
    ELSE Raise("TypeError", NoValue)

\* x.get(key): None for a dict without the key, AttributeError for a value
\* that is no dict
DictGet(x, key) ==
    IF x.t = "dict"
    THEN IF key \in DOMAIN x.m THEN Return(x.m[key]) ELSE Return(Null)
    ELSE Raise("AttributeError", NoValue)

\* the keys of a dict in iteration order (the model iterates dicts of at
\* most one key, whose order is unique)
RECURSIVE KeysOf(_)
KeysOf(ks) ==
    IF ks = {} THEN <<>>
    ELSE LET k == CHOOSE x \in ks : TRUE
         IN  <<[t |-> "key", k |-> k]>> \o KeysOf(ks \ {k})

\* the elements "for result in x" visits: the items of a list, the
\* characters of a string, the keys of a dict; TypeError for a number or None
Iterate(x) ==
    CASE x.t = "list" -> Return(x.xs)
      [] x.t = "tuple" -> Return(x.xs)
      [] x.t = "str" -> Return([i \in 1..Len(x.s) |-> Str(<<x.s[i]>>)])
      [] x.t = "dict" -> Return(KeysOf(DOMAIN x.m))
      [] OTHER -> Raise("TypeError", NoValue)

\* whether a value can be a dict key
Hashable(x) == x.t \notin {"list", "dict"}

\* District(result['district'], result['level'], result['kml_url']) of one
\* element of results
BuildDistrict(result) ==
    LET d == GetItem(result, "district")
        l == GetItem(result, "level")
        k == GetItem(result, "kml_url")
    IN  IF d.t = "raise" THEN d
        ELSE IF l.t = "raise" THEN l
        ELSE IF k.t = "raise" THEN k
        ELSE Return(District(d.v, l.v, k.v))

\* f with key k set to x
Put(f, k, x) == [j \in DOMAIN f \cup {k} |-> IF j = k THEN x ELSE f[j]]

(***************************************************************************)
(* DistrictApi.construct_single_location_data                              *)
(***************************************************************************)
\* SingleStore keeping the first District of a level
SingleStoreFirst(districts, dist) ==
    IF dist.level \in DOMAIN districts THEN districts
    ELSE Put(districts, dist.level, dist)

\* districts[result['level']] = district
SingleStore(districts, dist) == Put(districts, dist.level, dist)

RECURSIVE SingleLoop(_, _, _)
\* the loop over results from element i on
SingleLoop(rows, i, districts) ==
    IF i > Len(rows) THEN Return(Dict(districts))
    ELSE LET b == BuildDistrict(rows[i])
         IN  IF b.t = "raise" \/ ~Hashable(b.v.level)
             THEN Raise("InvalidResponse", rows[i])
             ELSE SingleLoop(rows, i + 1, SingleStore(districts, b.v))

\* the handler of the loop's try block when results cannot be iterated: the
\* name result was never bound
UnboundResult == Raise("UnboundLocalError", NoValue)

construct_single_location_data(d) ==
    LET results == GetItem(d, "results")
    IN  IF results.t = "raise"
        THEN IF results.exc = "KeyError" THEN Raise("InvalidResponse", d)
             ELSE results
        ELSE LET rows == Iterate(results.v)
             IN  IF rows.t = "raise" THEN UnboundResult
                 ELSE SingleLoop(rows.v, 1, [k \in {} |-> Null])

(***************************************************************************)
(* DistrictApi.construct_all_locations_data                                *)
(***************************************************************************)
\* raw_districts[result['level']].append(district)
AllStore(raw, dist) ==
    Put(raw, dist.level,
        IF dist.level \in DOMAIN raw THEN Append(raw[dist.level], dist)
        ELSE <<dist>>)

RECURSIVE AllLoop(_, _, _)
AllLoop(rows, i, raw) ==
    IF i > Len(rows) THEN Return(raw)
    ELSE LET b == BuildDistrict(rows[i])
         IN  IF b.t = "raise" \/ ~Hashable(b.v.level)
             THEN Raise("InvalidResponse", rows[i])
             ELSE AllLoop(rows, i + 1, AllStore(raw, b.v))

\* districts[k] = sorted(v) for every level; a comparison that raises is
\* not caught
SortLevels(raw) ==
    LET failing == {k \in DOMAIN raw : Sorted(raw[k]).t = "raise"}
    IN  IF failing # {}
        THEN Sorted(raw[CHOOSE k \in failing : TRUE])
        ELSE Return(Dict([k \in DOMAIN raw |-> List(Sorted(raw[k]).v)]))

construct_all_locations_data(d) ==
    LET results == GetItem(d, "results")
    IN  IF results.t = "raise"
        THEN IF results.exc = "KeyError" THEN Raise("InvalidResponse", d)
             ELSE results
        ELSE LET rows == Iterate(results.v)
             IN  IF rows.t = "raise" THEN UnboundResult
                 ELSE LET raw == AllLoop(rows.v, 1, [k \in {} |-> <<>>])
                      IN  IF raw.t = "raise" THEN raw ELSE SortLevels(raw.v)

(***************************************************************************)
(* The validators and the parser.                                          *)
(***************************************************************************)
\* validate_response with 500 left out of the codes of ApiUnavailable
validate_response_without_500(resp) ==
    IF resp.status_code = 200 THEN Return(NoValue)
    ELSE IF resp.status_code = 400 THEN Raise("BadRequest", resp)
    ELSE IF resp.status_code = 404 THEN Raise("ApiUnavailable", resp)
    ELSE IF resp.status_code = 403 THEN Raise("AuthorizationError", resp)
    ELSE Raise("DistrictApiError", resp)

\* DistrictApi.validate_response
validate_response(resp) ==
    IF resp.status_code = 200 THEN Return(NoValue)
    ELSE IF resp.status_code = 400 THEN Raise("BadRequest", resp)
    ELSE IF resp.status_code \in {404, 500} THEN Raise("ApiUnavailable", resp)
    ELSE IF resp.status_code = 403 THEN Raise("AuthorizationError", resp)
    ELSE Raise("DistrictApiError", resp)

\* parse_response returning None for a body that is no JSON text
parse_response_swallowing(resp) ==
    IF resp.body.t = "json" THEN Return(resp.body.j) ELSE Return(Null)

\* DistrictApi.parse_response: response.json() raises ValueError for a body
\* that is no JSON text
parse_response(resp) ==
    IF resp.body.t = "json" THEN Return(resp.body.j)
    ELSE Raise("InvalidResponse", resp.body)

\* the string "OK"
OK == Str(<<79, 75>>)

\* validate_response_body testing "status is None" in the place of "not status"
validate_response_body_is_none(response_dict) ==
    LET status == DictGet(response_dict, "status")
    IN  IF status.t = "raise" THEN status
        ELSE IF status.v = Null THEN Raise("InvalidResponse", response_dict)
        ELSE IF status.v # OK
        THEN Raise("LocationUnavailable", DictGet(response_dict, "errors").v)
        ELSE Return(NoValue)

\* DistrictApi.validate_response_body
validate_response_body(response_dict) ==
    LET status == DictGet(response_dict, "status")
    IN  IF status.t = "raise" THEN status
        ELSE IF ~Truthy(status.v) THEN Raise("InvalidResponse", response_dict)
        ELSE IF status.v # OK
        THEN Raise("LocationUnavailable", DictGet(response_dict, "errors").v)
        ELSE Return(NoValue)

(***************************************************************************)
(* The request builder and the point validation of get_districts.          *)
(***************************************************************************)
\* self.api_key
api_key == Str(<<107, 101, 121>>)

\* construct_query_vars adding lat and lng only when both are true in Python
construct_query_vars_nonzero(ll) ==
    IF Truthy(ll) /\ Truthy(Index(ll, 0).v) /\ Truthy(Index(ll, 1).v)
    THEN Dict([k \in {"api-key", "lat", "lng"} |->
                 IF k = "api-key" THEN api_key
                 ELSE IF k = "lat" THEN Index(ll, 0).v
                 ELSE Index(ll, 1).v])
    ELSE Dict([k \in {"api-key"} |-> api_key])

\* DistrictApi.construct_query_vars
construct_query_vars(ll) ==
    IF Truthy(ll)
    THEN Dict([k \in {"api-key", "lat", "lng"} |->
                 IF k = "api-key" THEN api_key
                 ELSE IF k = "lat" THEN Index(ll, 0).v
                 ELSE Index(ll, 1).v])
    ELSE Dict([k \in {"api-key"} |-> api_key])

\* lat = float(lat_lng[0]); lng = float(lat_lng[1]): the argument of
\* get_data, or the exception of the first step that raises
ValidatePoint(point) ==
    LET e0 == Index(point, 0)
    IN  IF e0.t = "raise" THEN e0
        ELSE LET lat == PyFloat(e0.v)
             IN  IF lat.t = "raise" THEN lat
                 ELSE LET e1 == Index(point, 1)
                      IN  IF e1.t = "raise" THEN e1
                          ELSE LET lng == PyFloat(e1.v)
                               IN  IF lng.t = "raise" THEN lng
                                   ELSE Return(Tuple(<<lat.v, lng.v>>))

(***************************************************************************)
(* The inputs of the model.                                                *)
(***************************************************************************)
SeqsUpTo(S, n) == UNION {[1..k -> S] : k \in 0..n}

\* district labels "9", "10" and "5a", levels "C" and "S", a boundary URL
Label9 == Str(<<57>>)
Label10 == Str(<<49, 48>>)
Label5a == Str(<<53, 97>>)
LevelC == Str(<<67>>)
LevelS == Str(<<83>>)
Url == Str(<<104>>)

\* a raw district row
Row(d, l, k) == Dict([district |-> d, level |-> l, kml_url |-> k])

Absent == [t |-> "absent"]

\* the envelope with the given status, results and errors (Absent: no such key)
Envelope(s, r, e) ==
    LET val(k) == IF k = "status" THEN s ELSE IF k = "results" THEN r ELSE e
    IN  Dict([k \in {j \in {"status", "results", "errors"} : val(j) # Absent}
               |-> val(k)])

WellFormedRows ==
    {Row(Label9, l, Url) : l \in {LevelC, LevelS}}
      \cup {Row(Label10, l, Url) : l \in {LevelC, LevelS}}
      \cup {Row(Label5a, l, Null) : l \in {LevelC, LevelS}}

\* elements of results that are no well-formed row: a number, None, a dict
\* with none of the fields, a row without kml_url, a row whose label is None
MalformedElements ==
    {Num(1), Null, Dict([a |-> Str(<<98>>)]),
     Dict([district |-> Label9, level |-> LevelC])}

NullLabelRow == Row(Null, LevelC, Url)

\* values of results that are no list
NonSequences ==
    {Null, Num(5), Str(<<>>), Str(<<120, 121>>), EmptyDict, Dict([a |-> Num(1)])}

\* the envelopes handed directly to the decoders
DecoderEnvelopes ==
    {Envelope(OK, List(rows), Absent) :
        rows \in SeqsUpTo(WellFormedRows \cup MalformedElements \cup {NullLabelRow},
                          MaxRows)}
      \cup {Envelope(OK, r, Absent) : r \in NonSequences}
      \cup {Envelope(OK, Absent, Absent), Dict([foo |-> Str(<<98>>)])}

\* HTTP status codes the transport may answer with
StatusCodes == {200, 201, 302, 400, 401, 403, 404, 406, 500, 503}

\* the string "ERROR"
ERROR == Str(<<69, 82, 82, 79, 82>>)

BodyStatuses == {Absent, OK, ERROR, Str(<<>>), Null, Num(0), Num(1), List(<<>>)}

BodyResults ==
    {Absent, Null, Num(5), Str(<<>>), EmptyDict}
      \cup {List(rows) :
              rows \in SeqsUpTo({Row(Label9, LevelC, Url), Row(Label10, LevelC, Null),
                                 NullLabelRow, Num(1)}, MaxBodyRows)}

BodyErrors == {Absent, List(<<Str(<<101>>)>>)}

\* a response body: a text that is no JSON, or the text of a JSON value
Bodies ==
    {[t |-> "text", s |-> <<60>>]}
      \cup {[t |-> "json", j |-> j] : j \in {Null, Num(1), List(<<>>), Str(<<97>>)}}
      \cup {[t |-> "json", j |-> Envelope(s, r, e)] :
              s \in BodyStatuses, r \in BodyResults, e \in BodyErrors}

\* what the transport returns: a status code and a body
Response(c, b) == [t |-> "response", status_code |-> c, body |-> b]

Responses == {Response(c, b) : c \in StatusCodes, b \in Bodies}

\* points of the calls of the pipeline specification
CallPoints ==
    {Tuple(<<Float(123, 1), Float(-104, 1)>>), Tuple(<<Num(0), Num(0)>>),
     Tuple(<<Str(<<49, 50>>), Float(5, 1), Null>>),
     Tuple(<<Str(<<97>>), Num(1)>>), Float(123, 1)}

\* elements of the points of the request specification: 12.3, 0, 12, "12.3",
\* "-10", "a", "" and None
PointElements ==
    {Float(123, 1), Num(0), Num(12), Str(<<49, 50, 46, 51>>), Str(<<45, 49, 48>>),
     Str(<<97>>), Str(<<>>), Null}

\* points handed to get_districts: tuples, and a float, None and the strings
\* "12" and "1x" in the place of a tuple
Points ==
    {Tuple(p) : p \in SeqsUpTo(PointElements, MaxPointLen)}
      \cup {Float(123, 1), Null, Str(<<49, 50>>), Str(<<49, 120>>)}

\* the character codes of " ", "-", "0", "1", "5", "9" and "a"
LabelAlphabet == {32, 45, 48, 49, 53, 57, 97}

\* the district labels the ordering is called on
Labels == {Str(s) : s \in SeqsUpTo(LabelAlphabet, MaxLabelLen)}

\* values without a district attribute
NonDistricts == {Null, Num(1), Str(<<57>>)}

\* the responses of the request specification
FewResponses ==
    {Response(200, [t |-> "json",
                    j |-> Envelope(OK, List(<<Row(Label9, LevelC, Url)>>), Absent)]),
     Response(500, [t |-> "text", s |-> <<60>>])}

(***************************************************************************)
(* The state machine of one call.                                          *)
(***************************************************************************)
Init ==
    /\ pc = "idle"
    /\ op = "none"
    /\ arg = NoValue
    /\ lat_lng = NoValue
    /\ query_vars = NoValue
    /\ response = NoValue
    /\ data = NoValue
    /\ outcome = NoValue
    /\ requests = 0
    /\ stages = <<>>

\* a step of the pipeline ends in the next stage, or raises
Advance(o, stage) ==
    IF o.t = "raise"
    THEN /\ pc' = "raised"
         /\ outcome' = o
         /\ stages' = stages
    ELSE /\ pc' = stage
         /\ outcome' = outcome
         /\ stages' = Append(stages, stage)

\* get_all_districts(): get_data() is entered with no point
GetAllDistricts ==
    /\ pc = "idle"
    /\ op' = "get_all_districts"
    /\ arg' = NoValue
    /\ lat_lng' = Null
    /\ pc' = "built"
    /\ stages' = <<"built">>
    /\ UNCHANGED <<query_vars, response, data, outcome, requests>>

\* get_districts(point): the point is validated, then get_data((lat, lng))
\* is entered
GetDistricts(point) ==
    /\ pc = "idle"
    /\ op' = "get_districts"
    /\ arg' = point
    /\ LET v == ValidatePoint(point)
       IN  /\ lat_lng' = IF v.t = "raise" THEN NoValue ELSE v.v
           /\ Advance(v, "built")
    /\ UNCHANGED <<query_vars, response, data, requests>>

\* send_request: the query variables are built and the transport answers
\* with resp
SendRequest(resp) ==
    /\ pc = "built"
    /\ query_vars' = construct_query_vars(lat_lng)
    /\ response' = resp
    /\ requests' = requests + 1
    /\ pc' = "request-sent"
    /\ stages' = Append(stages, "request-sent")
    /\ UNCHANGED <<op, arg, lat_lng, data, outcome>>

\* validate_response going back to send the request again when the API is
\* unavailable
ValidateResponseRetrying ==
    /\ pc = "request-sent"
    /\ LET o == validate_response(response)
       IN  IF o.t = "raise" /\ o.exc = "ApiUnavailable" /\ requests < 2
           THEN /\ pc' = "built"
                /\ outcome' = outcome
                /\ stages' = <<"built">>
           ELSE Advance(o, "status-validated")
    /\ UNCHANGED <<op, arg, lat_lng, query_vars, response, data, requests>>

ValidateResponse ==
    /\ pc = "request-sent"
    /\ Advance(validate_response(response), "status-validated")
    /\ UNCHANGED <<op, arg, lat_lng, query_vars, response, data, requests>>

ParseResponse ==
    /\ pc = "status-validated"
    /\ LET o == parse_response(response)
       IN  /\ data' = IF o.t = "raise" THEN data ELSE o.v
           /\ Advance(o, "body-parsed")
    /\ UNCHANGED <<op, arg, lat_lng, query_vars, response, requests>>

ValidateResponseBody ==
    /\ pc = "body-parsed"
    /\ Advance(validate_response_body(data), "body-validated")
    /\ UNCHANGED <<op, arg, lat_lng, query_vars, response, data, requests>>

\* a decoder ends the call: its dict is returned, or its exception raised
Decode(o) ==
    /\ outcome' = o
    /\ pc' = IF o.t = "raise" THEN "raised" ELSE "decoded"
    /\ stages' = IF o.t = "raise" THEN stages ELSE Append(stages, "decoded")

ConstructAllLocations ==
    /\ pc = "body-validated"
    /\ op = "get_all_districts"
    /\ Decode(construct_all_locations_data(data))
    /\ UNCHANGED <<op, arg, lat_lng, query_vars, response, data, requests>>

ConstructSingleLocation ==
    /\ pc = "body-validated"
    /\ op = "get_districts"
    /\ Decode(construct_single_location_data(data))
    /\ UNCHANGED <<op, arg, lat_lng, query_vars, response, data, requests>>

\* the call is over: the client keeps nothing of it
Finish ==
    /\ pc \in {"decoded", "raised", "returned"}
    /\ pc' = "idle"
    /\ op' = "none"
    /\ arg' = NoValue
    /\ lat_lng' = NoValue
    /\ query_vars' = NoValue
    /\ response' = NoValue
    /\ data' = NoValue
    /\ outcome' = NoValue
    /\ requests' = 0
    /\ stages' = <<>>

\* a direct call of a method: op is the method, arg its argument, outcome
\* what it returns or raises
Called(method, x, o) ==
    /\ op' = method
    /\ arg' = x
    /\ outcome' = o
    /\ pc' = IF o.t = "raise" THEN "raised" ELSE "returned"

\* construct_single_location_data called on the envelope d
CallConstructSingle(d) ==
    /\ pc = "idle"
    /\ Called("construct_single_location_data", d, construct_single_location_data(d))
    /\ UNCHANGED <<lat_lng, query_vars, response, data, requests, stages>>

\* construct_all_locations_data called on the envelope d
CallConstructAll(d) ==
    /\ pc = "idle"
    /\ Called("construct_all_locations_data", d, construct_all_locations_data(d))
    /\ UNCHANGED <<lat_lng, query_vars, response, data, requests, stages>>

\* x < y, called on a District and another value
CallLt(x, y) ==
    /\ pc = "idle"
    /\ Called("__lt__", Tuple(<<x, y>>), Lt(x, y))
    /\ UNCHANGED <<lat_lng, query_vars, response, data, requests, stages>>

\* the calls of the pipeline, with every response
Next ==
    \/ GetAllDistricts
    \/ \E point \in CallPoints : GetDistricts(point)
    \/ pc = "built" /\ \E resp \in Responses : SendRequest(resp)
    \/ ValidateResponse
    \/ ParseResponse
    \/ ValidateResponseBody
    \/ ConstructAllLocations
    \/ ConstructSingleLocation
    \/ Finish

Spec == Init /\ [][Next]_vars

\* the calls of the pipeline, with every point
NextRequest ==
    \/ GetAllDistricts
    \/ pc = "idle" /\ \E point \in Points : GetDistricts(point)
    \/ \E resp \in FewResponses : SendRequest(resp)
    \/ ValidateResponse
    \/ ParseResponse
    \/ ValidateResponseBody
    \/ ConstructAllLocations
    \/ ConstructSingleLocation
    \/ Finish

SpecRequest == Init /\ [][NextRequest]_vars

\* direct calls of the two decoders
NextDecode ==
    \/ pc = "idle" /\ \E d \in DecoderEnvelopes : CallConstructSingle(d)
    \/ pc = "idle" /\ \E d \in DecoderEnvelopes : CallConstructAll(d)
    \/ Finish

SpecDecode == Init /\ [][NextDecode]_vars

\* the Districts the ordering specification compares
OrderedDistricts == {District(l, LevelC, Url) : l \in Labels}

\* comparisons of a District with a District or with another value
NextOrder ==
    \/ pc = "idle" /\ \E x \in OrderedDistricts, y \in OrderedDistricts : CallLt(x, y)
    \/ pc = "idle" /\ \E x \in OrderedDistricts, y \in NonDistricts : CallLt(x, y)
    \/ Finish

SpecOrder == Init /\ [][NextOrder]_vars

(***************************************************************************)
(* Where a call of the pipeline stands.                                    *)
(***************************************************************************)
\* the stage has been passed
Passed(stage) == \E i \in 1..Len(stages) : stages[i] = stage

\* the step that follows the stage raised
FailedAfter(stage) ==
    pc = "raised" /\ Len(stages) > 0 /\ stages[Len(stages)] = stage

\* the status validation has run on the response
StatusChecked == Passed("status-validated") \/ FailedAfter("request-sent")

\* the body validation has run on the parsed body
BodyChecked == Passed("body-validated") \/ FailedAfter("body-parsed")

(***************************************************************************)
(* The claims.                                                             *)
(***************************************************************************)
\* C1: validate_response classifies every status code: 200 passes, 400
\* raises BadRequest, 404 and 500 raise ApiUnavailable, 403 raises
\* AuthorizationError and every other code raises DistrictApiError itself,
\* each carrying the response.
C1_StatusClassification ==
    StatusChecked =>
        LET c == response.status_code
            raises(kind) ==
                FailedAfter("request-sent") /\ outcome = Raise(kind, response)
        IN  /\ c = 200 => Passed("status-validated")
            /\ c = 400 => raises("BadRequest")
            /\ c \in {404, 500} => raises("ApiUnavailable")
            /\ c = 403 => raises("AuthorizationError")
            /\ c \notin {200, 400, 403, 404, 500} => raises("DistrictApiError")

\* C1, witness: status 500 has been classified as ApiUnavailable
C1_Witness ==
    /\ FailedAfter("request-sent")
    /\ response.status_code = 500
    /\ outcome.exc = "ApiUnavailable"

\* the parsed body is a mapping
DataIsEnvelope == data.t = "dict"

\* the value of the status field of the parsed body, Absent without one
StatusField == IF "status" \in DOMAIN data.m THEN data.m.status ELSE Absent

\* the value of the errors field of the parsed body, None without one
ErrorsField == IF "errors" \in DOMAIN data.m THEN data.m.errors ELSE Null

\* the body validation raised this exception
BodyRaises(kind, what) == FailedAfter("body-parsed") /\ outcome = Raise(kind, what)

\* C2 as stated: an envelope without a status field fails with
\* InvalidResponse, one whose status field holds anything but "OK" (an empty
\* string, null and non-strings included) fails with LocationUnavailable
\* carrying the errors field, and one whose status is "OK" passes.
C2_AsStated ==
    BodyChecked /\ DataIsEnvelope =>
        /\ StatusField = Absent => BodyRaises("InvalidResponse", data)
        /\ StatusField \notin {Absent, OK} =>
               BodyRaises("LocationUnavailable", ErrorsField)
        /\ StatusField = OK => Passed("body-validated")

\* the values of a status field that Python takes for false
FalsyStatuses == {Null, Str(<<>>), Num(0), List(<<>>), EmptyDict}

\* C2, amended: an envelope without a status field, or whose status field
\* is false in Python (null, an empty string, zero, an empty list), fails with
\* InvalidResponse carrying the envelope; any other status than "OK" fails
\* with LocationUnavailable carrying the errors field; "OK" passes.
C2_BodyClassification ==
    BodyChecked /\ DataIsEnvelope =>
        /\ StatusField \in FalsyStatuses \cup {Absent} =>
               BodyRaises("InvalidResponse", data)
        /\ StatusField \notin FalsyStatuses \cup {Absent, OK} =>
               BodyRaises("LocationUnavailable", ErrorsField)
        /\ StatusField = OK => Passed("body-validated")

\* C2, witness: an empty status string has failed with InvalidResponse
C2_Witness ==
    /\ BodyChecked
    /\ DataIsEnvelope
    /\ StatusField = Str(<<>>)
    /\ outcome.exc = "InvalidResponse"

\* one of the two decoders has been called on the envelope arg
DecoderCalled ==
    /\ op \in {"construct_single_location_data", "construct_all_locations_data"}
    /\ pc \in {"returned", "raised"}

\* the envelope has a results key
HasResults == "results" \in DOMAIN arg.m

\* a mapping with the three District fields
IsRow(e) == e.t = "dict" /\ {"district", "level", "kml_url"} \subseteq DOMAIN e.m

\* the results of the envelope are a sequence of rows
WellFormedResults ==
    /\ HasResults
    /\ arg.m.results.t = "list"
    /\ \A i \in 1..Len(arg.m.results.xs) : IsRow(arg.m.results.xs[i])

\* C3 as stated: both decoders fail with InvalidResponse when the envelope
\* has no results key (carrying the envelope), when results is no ordered
\* sequence, and when an element of results is no mapping or lacks one of
\* district, level, kml_url (carrying the first such element).
C3_AsStated ==
    DecoderCalled =>
        /\ ~HasResults => outcome = Raise("InvalidResponse", arg)
        /\ HasResults /\ arg.m.results.t # "list" =>
               outcome.t = "raise" /\ outcome.exc = "InvalidResponse"
        /\ HasResults /\ arg.m.results.t = "list" /\ ~WellFormedResults =>
               LET rows == arg.m.results.xs
                   bad == CHOOSE i \in 1..Len(rows) :
                            ~IsRow(rows[i]) /\ \A j \in 1..(i - 1) : IsRow(rows[j])
               IN  outcome = Raise("InvalidResponse", rows[bad])

\* the District a row is built into
DistrictOf(row) == District(row.m.district, row.m.level, row.m.kml_url)

\* C4: on results that are a sequence of rows, construct_single_location_data
\* returns a mapping whose keys are exactly the levels of the rows and whose
\* value for a level is the District of the last row of that level (none
\* for an empty sequence).
C4_LastRowPerLevel ==
    /\ op = "construct_single_location_data"
    /\ pc \in {"returned", "raised"}
    /\ WellFormedResults
    => LET rows == arg.m.results.xs
           levels == {rows[i].m.level : i \in 1..Len(rows)}
           last(l) == CHOOSE i \in 1..Len(rows) :
                        /\ rows[i].m.level = l
                        /\ \A j \in (i + 1)..Len(rows) : rows[j].m.level # l
       IN  /\ outcome.t = "return"
           /\ outcome.v.t = "dict"
           /\ DOMAIN outcome.v.m = levels
           /\ \A l \in levels : outcome.v.m[l] = DistrictOf(rows[last(l)])

\* C4, witness: the first and the last of three rows have the same level and
\* different labels, and the mapping returned holds the last one
C4_Witness ==
    /\ op = "construct_single_location_data"
    /\ pc = "returned"
    /\ WellFormedResults
    /\ LET rows == arg.m.results.xs
       IN  /\ Len(rows) = 3
           /\ rows[1].m.level = rows[3].m.level
           /\ rows[1].m.district # rows[3].m.district
           /\ outcome.v.m[rows[3].m.level] = DistrictOf(rows[3])

\* how often x occurs in the sequence xs
Count(xs, x) == Cardinality({i \in 1..Len(xs) : xs[i] = x})

\* C5 as stated: on results that are a sequence of rows with string labels,
\* construct_all_locations_data returns a mapping whose keys are exactly the
\* levels of the rows; the sequence of a level holds exactly the Districts of
\* that level's rows, each as often as it occurs, and no element of it is
\* less than an element before it, whatever the mix of numeric and
\* non-numeric labels.
C5_AsStated ==
    /\ op = "construct_all_locations_data"
    /\ pc \in {"returned", "raised"}
    /\ WellFormedResults
    /\ \A i \in 1..Len(arg.m.results.xs) : arg.m.results.xs[i].m.district.t = "str"
    => LET rows == arg.m.results.xs
           levels == {rows[i].m.level : i \in 1..Len(rows)}
           built == [i \in 1..Len(rows) |-> DistrictOf(rows[i])]
           ofLevel(l) == {i \in 1..Len(rows) : rows[i].m.level = l}
       IN  /\ outcome.t = "return"
           /\ outcome.v.t = "dict"
           /\ DOMAIN outcome.v.m = levels
           /\ \A l \in levels :
                LET sorted == outcome.v.m[l].xs
                IN  /\ Len(sorted) = Cardinality(ofLevel(l))
                    /\ \A i \in ofLevel(l) :
                         Count(sorted, built[i])
                           = Cardinality({j \in ofLevel(l) : built[j] = built[i]})
                    /\ \A i, j \in 1..Len(sorted) :
                         i < j => Lt(sorted[j], sorted[i]) = Return(FALSE)

\* get_districts has validated its point
PointChecked == op = "get_districts" /\ pc # "idle"

\* the validation of the point raised
PointRejected == PointChecked /\ pc = "raised" /\ stages = <<>>

\* the point can be subscripted: a tuple, or a string
Indexable == arg.t \in {"tuple", "str"}

\* the number of elements of the point
PointLen == IF arg.t = "tuple" THEN Len(arg.xs) ELSE Len(arg.s)

\* element i (from 0) of the point
Element(i) == Index(arg, i).v

\* a float, an int or a string that reads as a number
IsNumeric(e) ==
    \/ e.t \in {"float", "num"}
    \/ e.t = "str" /\ FloatOfString(e.s).t = "return"

\* a string that does not read as a number
IsNonNumericString(e) == e.t = "str" /\ FloatOfString(e.s).t = "raise"

\* C6 as stated: get_districts rejects a point with exactly two kinds of
\* error: a value error when one of its first two elements is a non-numeric
\* string, a type error when it cannot be subscripted or has fewer than two
\* elements; a point whose first two elements are floats, ints or numeric
\* strings is accepted.
C6_AsStated ==
    PointChecked =>
        /\ PointRejected => outcome.exc \in {"ValueError", "TypeError"}
        /\ Indexable /\ PointLen >= 2 /\ IsNumeric(Element(0)) /\ IsNumeric(Element(1))
             => ~PointRejected
        /\ (Indexable /\ PointLen >= 2
              /\ (IsNonNumericString(Element(0))
                    \/ (IsNumeric(Element(0)) /\ IsNonNumericString(Element(1)))))
             => PointRejected /\ outcome.exc = "ValueError"
        /\ ~Indexable => PointRejected /\ outcome.exc = "TypeError"
        /\ Indexable /\ PointLen = 0 => PointRejected /\ outcome.exc = "TypeError"
        /\ Indexable /\ PointLen = 1 /\ IsNumeric(Element(0))
             => PointRejected /\ outcome.exc = "TypeError"

\* C7: the query variables handed to the transport always hold the API key
\* under "api-key"; for get_districts(point) they are exactly the key,
\* lat = float(point[0]) and lng = float(point[1]), also for (0, 0) and
\* whatever follows the first two elements; for get_all_districts they are
\* the key alone.
C7_QueryVars ==
    query_vars.t = "dict" =>
        /\ "api-key" \in DOMAIN query_vars.m
        /\ query_vars.m["api-key"] = api_key
        /\ op = "get_districts" =>
             /\ DOMAIN query_vars.m = {"api-key", "lat", "lng"}
             /\ query_vars.m["lat"] = PyFloat(Element(0)).v
             /\ query_vars.m["lng"] = PyFloat(Element(1)).v
        /\ op = "get_all_districts" => DOMAIN query_vars.m = {"api-key"}

\* C7, witness: the request of the point (0, 0, x) has been sent with
\* lat = 0.0 and lng = 0.0
C7_Witness ==
    /\ op = "get_districts"
    /\ pc = "request-sent"
    /\ arg.t = "tuple"
    /\ PointLen = 3
    /\ arg.xs[1] = Num(0)
    /\ arg.xs[2] = Num(0)
    /\ query_vars.m["lat"] = Float(0, 0)
    /\ query_vars.m["lng"] = Float(0, 0)

\* the stages of a call, in their order
StageOrder ==
    <<"built", "request-sent", "status-validated", "body-parsed", "body-validated",
      "decoded">>

\* the error a status code other than 200 is classified as
StatusError(c) ==
    CASE c = 400 -> "BadRequest"
      [] c \in {404, 500} -> "ApiUnavailable"
      [] c = 403 -> "AuthorizationError"
      [] OTHER -> "DistrictApiError"

\* what C8 says of every stage but the body status check
C8_Stages ==
    /\ Len(stages) <= Len(StageOrder)
    /\ \A i \in 1..Len(stages) : stages[i] = StageOrder[i]
    /\ pc = "raised" => outcome.t = "raise"
    /\ response.t = "response" /\ response.status_code # 200 /\ pc # "request-sent"
         => /\ FailedAfter("request-sent")
            /\ outcome.exc = StatusError(response.status_code)
            /\ data = NoValue
    /\ (response.t = "response" /\ response.status_code = 200
          /\ response.body.t = "text"
          /\ pc \notin {"request-sent", "status-validated"})
         => /\ FailedAfter("status-validated")
            /\ outcome = Raise("InvalidResponse", response.body)
    /\ outcome.t = "return" =>
         /\ pc = "decoded"
         /\ stages = StageOrder
         /\ response.status_code = 200
         /\ DataIsEnvelope
         /\ StatusField = OK
         /\ requests = 1

\* C8 as stated: the stages run in the fixed order and the first one that
\* fails decides the outcome: a status other than 200 gives its error whatever
\* the body and the body is not parsed; an unparseable body gives
\* InvalidResponse; a body status other than "OK" gives LocationUnavailable
\* whatever the results are; a result is returned only when every stage passed.
C8_AsStated ==
    /\ C8_Stages
    /\ BodyChecked /\ DataIsEnvelope /\ StatusField \notin {Absent, OK}
         => BodyRaises("LocationUnavailable", ErrorsField)

\* C8, amended: as stated, but of the body statuses other than "OK" only
\* those that are true in Python give LocationUnavailable; a missing status and
\* one that is false in Python (null, an empty string, zero, an empty list)
\* give InvalidResponse, both before the results are looked at.
C8_StageOrder ==
    /\ C8_Stages
    /\ BodyChecked /\ DataIsEnvelope /\ StatusField \notin FalsyStatuses \cup {Absent, OK}
         => BodyRaises("LocationUnavailable", ErrorsField)
    /\ BodyChecked /\ DataIsEnvelope /\ StatusField \in FalsyStatuses \cup {Absent}
         => BodyRaises("InvalidResponse", data)

\* C8, witness: a response with status 200 and the body status "ERROR" has
\* failed with LocationUnavailable although its results are no sequence
C8_Witness ==
    /\ BodyChecked
    /\ DataIsEnvelope
    /\ StatusField = ERROR
    /\ "results" \in DOMAIN data.m
    /\ data.m.results = Null
    /\ outcome.exc = "LocationUnavailable"
    /\ stages = SubSeq(StageOrder, 1, 4)

\* DistrictApiError and the subclasses of it that the code raises
PipelineErrors ==
    {"DistrictApiError", "BadRequest", "ApiUnavailable", "AuthorizationError",
     "LocationUnavailable", "InvalidResponse"}

\* C9 as stated: whatever the status code and the body, a call whose request
\* was sent returns a decoded mapping or raises DistrictApiError or one of
\* BadRequest, ApiUnavailable, AuthorizationError, LocationUnavailable and
\* InvalidResponse; nothing else, and never QuotaExceeded.
C9_AsStated ==
    /\ pc = "decoded" => outcome.t = "return" /\ outcome.v.t = "dict"
    /\ pc = "raised" /\ Passed("request-sent") => outcome.exc \in PipelineErrors

\* C10: for two Districts with string labels, x < y is the comparison of
\* int(x.district) and int(y.district) when both labels convert, and the
\* lexicographic comparison of the two labels when one of them does not.
C10_NumericElseLexicographic ==
    /\ op = "__lt__"
    /\ pc \in {"returned", "raised"}
    /\ HasDistrict(arg.xs[2])
    => LET x == arg.xs[1].district.s
           y == arg.xs[2].district.s
           cx == IntOfString(x)
           cy == IntOfString(y)
       IN  outcome = Return(IF cx.t = "return" /\ cy.t = "return"
                            THEN cx.v < cy.v
                            ELSE LexLess(x, y))

\* C10, witness: "9" < "10" has been found true (numerically, not
\* lexicographically)
C10_Witness ==
    /\ op = "__lt__"
    /\ pc = "returned"
    /\ HasDistrict(arg.xs[2])
    /\ arg.xs[1].district = Label9
    /\ arg.xs[2].district = Label10
    /\ outcome = Return(TRUE)

\* C11 as stated: x < y on a District x, numeric label or not, and a value y
\* that has no district attribute raises TypeError, and no other kind of
\* error.
C11_AsStated ==
    /\ op = "__lt__"
    /\ pc \in {"returned", "raised"}
    /\ ~HasDistrict(arg.xs[2])
    => /\ outcome.t = "raise"
       /\ outcome.exc = "TypeError"

\* the names of the two facade methods
Facade == {"get_all_districts", "get_districts"}

\* C12: one call of get_all_districts or get_districts sends at most one
\* request: none while the request has not been sent, none at all when the
\* validation of the point raised, and exactly one from the sending on,
\* whichever later stage fails; a call that is over has sent exactly one
\* request unless the validation of its point raised.
C12_OneRequest ==
    /\ requests \in {0, 1}
    /\ requests = 1 <=> Passed("request-sent")
    /\ PointRejected => requests = 0
    /\ op \in Facade /\ pc \in {"decoded", "raised"} /\ ~PointRejected
         => requests = 1
    /\ op = "get_all_districts" /\ pc \in {"decoded", "raised"} => requests = 1

\* C12, witness: a call of get_districts whose request was answered with a
\* status the validation rejects has ended with one request sent
C12_Witness ==
    /\ op = "get_districts"
    /\ FailedAfter("request-sent")
    /\ outcome.t = "raise"
    /\ outcome.exc = "ApiUnavailable"
    /\ requests = 1

\* C13 as stated: on Districts with string labels, < is irreflexive (x < x
\* is false), asymmetric (x < y and y < x are never both true) and
\* transitive (x < y and y < z imply x < z), labels that convert to integers
\* mixed with labels that do not included.
C13_AsStated ==
    /\ op = "__lt__"
    /\ pc \in {"returned", "raised"}
    /\ HasDistrict(arg.xs[2])
    => LET x == arg.xs[1]
           y == arg.xs[2]
       IN  /\ outcome.t = "return"
           /\ (x = y) => (outcome = Return(FALSE))
           /\ (outcome = Return(TRUE)) => (Lt(y, x) = Return(FALSE))
           /\ (outcome = Return(TRUE)) =>
                  (\A z \in OrderedDistricts :
                       (Lt(y, z) = Return(TRUE)) => (Lt(x, z) = Return(TRUE)))

====
